---- MODULE Spec2Model ----
(***************************************************************************)
(* Model of mbed_vscode_tools.py: the three commands generate, configure   *)
(* and update, acting on three files: c_cpp_properties.json, the tool      *)
(* config file and build.ninja.                                            *)
(*                                                                         *)
(* A Python str is a sequence of one-character strings, so that strip,     *)
(* startswith, split and slicing are computed as Python computes them.     *)
(* A JSON object is a record (a function on its keys), a JSON array a      *)
(* sequence.                                                               *)
(***************************************************************************)
EXTENDS Integers, Sequences, FiniteSets, TLC

VARIABLES
    out_dir,           \* "absent" / "present": the directory of c_cpp_properties.json
    vscode_conf_file,  \* content of c_cpp_properties.json, or NoFile
    tool_conf_file,    \* content of the tool config file, or NoFile
    ninja_build_file,  \* the lines of build.ninja, or NoFile
    lastCmd,           \* the last command run: its name, arguments and outcome
    before,            \* the files as they were when the last command started
    extracted          \* update's locals after parsing: defines, includes, lines read

vars == <<out_dir, vscode_conf_file, tool_conf_file, ninja_build_file,
          lastCmd, before, extracted>>

----------------------------------------------------------------------------
(* Bounds of the model *)

\* the longest configurations list a user writes into c_cpp_properties.json
MaxEntries == 3
\* the most -D / -I items on one generated DEFINES / INCLUDES line
MaxTokens == 3
\* the most lines of a generated build.ninja made of marker lines
MaxLines == 3

----------------------------------------------------------------------------
(* Python str and list operations *)

\* a file is <<>> when it does not exist, <<content>> when it does
NoFile == <<>>
File(content) == <<content>>
Content(file) == file[1]

Whitespace == {" ", "\t", "\n"}

\* s[i:j] with 1-based inclusive indices; empty when i > j
Slice(s, i, j) == IF i > j THEN <<>> ELSE SubSeq(s, i, j)

RECURSIVE lstrip(_)
lstrip(s) ==
    IF s # <<>> /\ Head(s) \in Whitespace THEN lstrip(Tail(s)) ELSE s

RECURSIVE rstrip(_)
rstrip(s) ==
    IF s # <<>> /\ s[Len(s)] \in Whitespace
    THEN rstrip(SubSeq(s, 1, Len(s) - 1))
    ELSE s

\* str.strip()
strip(s) == rstrip(lstrip(s))

\* str.startswith(prefix)
startswith(s, prefix) ==
    /\ Len(s) >= Len(prefix)
    /\ SubSeq(s, 1, Len(prefix)) = prefix

\* str.find(sep): the 1-based index of the first occurrence, 0 if there is none
find(s, sep) ==
    LET hits == {i \in 1..(Len(s) - Len(sep) + 1) :
                    SubSeq(s, i, i + Len(sep) - 1) = sep}
    IN  IF hits = {} THEN 0 ELSE CHOOSE i \in hits : \A j \in hits : i <= j

\* str.split(sep) for a non-empty sep: cut at every occurrence, left to right
RECURSIVE split(_, _)
split(s, sep) ==
    LET i == find(s, sep)
    IN  IF i = 0
        THEN <<s>>
        ELSE <<SubSeq(s, 1, i - 1)>> \o split(SubSeq(s, i + Len(sep), Len(s)), sep)

\* s[1:-1]: drop the first and the last character
DropEnds(s) == Slice(s, 2, Len(s) - 1)

\* x in list
Contains(list, x) == \E i \in 1..Len(list) : list[i] = x

\* list[1:]
Rest(list) == IF list = <<>> THEN <<>> ELSE Tail(list)

----------------------------------------------------------------------------
(* update: parsing build.ninja *)

DEFINES_MARKER == <<"D","E","F","I","N","E","S"," ","="," ">>
INCLUDES_MARKER == <<"I","N","C","L","U","D","E","S"," ","="," ">>
DASH_D == <<"-","D">>
DASH_I == <<"-","I">>

\* for define in line.split('-D')[1:]: define.strip(), appended if not present
RECURSIVE AppendDefines(_, _)
AppendDefines(defines, pieces) ==
    IF pieces = <<>> THEN defines
    ELSE LET define == strip(Head(pieces))
         IN  AppendDefines(IF Contains(defines, define) THEN defines
                           ELSE Append(defines, define),
                           Tail(pieces))

ParseDefines(defines, line) == AppendDefines(defines, Rest(split(line, DASH_D)))

\* for include in line.split('-I')[1:]: include.strip()[1:-1], appended if not present
RECURSIVE AppendIncludes(_, _)
AppendIncludes(includes, pieces) ==
    IF pieces = <<>> THEN includes
    ELSE LET include == DropEnds(strip(Head(pieces)))
         IN  AppendIncludes(IF Contains(includes, include) THEN includes
                            ELSE Append(includes, include),
                            Tail(pieces))

ParseIncludes(includes, line) == AppendIncludes(includes, Rest(split(line, DASH_I)))

\* a mutant of TakesDefines: the defines_done flag is not consulted
TakesDefinesEveryLine(defines_done, line) == startswith(line, DEFINES_MARKER)

\* `not defines_done and line.startswith('DEFINES = ')`
TakesDefines(defines_done, line) ==
    ~defines_done /\ startswith(line, DEFINES_MARKER)

\* `not includes_done and line.startswith('INCLUDES = ')`
TakesIncludes(includes_done, line) ==
    ~includes_done /\ startswith(line, INCLUDES_MARKER)

\* the loop over the lines, from line i on; st carries the loop's variables and
\* the number of lines the loop has read
RECURSIVE ScanLines(_, _, _)
ScanLines(lines, i, st) ==
    IF i > Len(lines) THEN st
    ELSE LET line == strip(lines[i])
             d    == TakesDefines(st.defines_done, line)
             st1  == IF d THEN [st EXCEPT !.defines = ParseDefines(@, line),
                                          !.defines_done = TRUE]
                     ELSE st
             n    == TakesIncludes(st1.includes_done, line)
             st2  == IF n THEN [st1 EXCEPT !.includes = ParseIncludes(@, line),
                                           !.includes_done = TRUE]
                     ELSE st1
             st3  == [st2 EXCEPT !.read = i]
         IN  IF st3.defines_done /\ st3.includes_done
             THEN st3
             ELSE ScanLines(lines, i + 1, st3)

GREENTEA_INCLUDE ==
    <<"/","_","d","e","p","s","/","g","r","e","e","n","t","e","a","-",
      "c","l","i","e","n","t","-","s","r","c","/","i","n","c","l","u","d","e">>

\* str(cmake_build_dir / '_deps' / 'greentea-client-src' / 'include')
ExtraInclude(cmake_build_dir) == cmake_build_dir \o GREENTEA_INCLUDE

\* the whole "Parse build.ninja" block: the scan, then the manual include
ParseNinja(lines, cmake_build_dir) ==
    LET st == ScanLines(lines, 1,
                        [defines |-> <<>>, includes |-> <<>>,
                         defines_done |-> FALSE, includes_done |-> FALSE,
                         read |-> 0])
    IN  [defines  |-> st.defines,
         includes |-> Append(st.includes, ExtraInclude(cmake_build_dir)),
         read     |-> st.read]

----------------------------------------------------------------------------
(* The configuration document and update's merge *)

\* consts.VSCODE_CONFENTRY_BASE and consts.VSCODE_CONFENTRY_AUTO
VSCODE_CONFENTRY_BASE == "Mbed"
VSCODE_CONFENTRY_AUTO == "MbedAuto"

\* dict[key] = value, on a dict that may lack the key
SetKey(dict, key, value) ==
    [k \in DOMAIN dict \cup {key} |-> IF k = key THEN value ELSE dict[k]]

\* the indices of the entries named "Mbed"
BaseIndices(configurations) ==
    {i \in 1..Len(configurations) : configurations[i].name = VSCODE_CONFENTRY_BASE}

\* the n of configure's validity check
CountBase(configurations) == Cardinality(BaseIndices(configurations))

\* next(filter(...)): the index of the first entry named "Mbed"
FirstBaseIndex(configurations) ==
    CHOOSE i \in BaseIndices(configurations) :
        \A j \in BaseIndices(configurations) : i <= j

\* a mutant of AutoEntry: the lists start empty instead of as the base entry's
AutoEntryFromEmpty(base_entry, includes, defines) ==
    SetKey(SetKey(SetKey(base_entry, "name", VSCODE_CONFENTRY_AUTO),
                  "includePath", includes),
           "defines", defines)

\* the copy of the base entry, renamed, with includes and defines appended
AutoEntry(base_entry, includes, defines) ==
    LET e1 == SetKey(base_entry, "name", VSCODE_CONFENTRY_AUTO)
        e2 == IF "includePath" \in DOMAIN e1 THEN e1
              ELSE SetKey(e1, "includePath", <<>>)
        e3 == SetKey(e2, "includePath", e2.includePath \o includes)
        e4 == IF "defines" \in DOMAIN e3 THEN e3
              ELSE SetKey(e3, "defines", <<>>)
    IN  SetKey(e4, "defines", e4.defines \o defines)

IsNotAuto(entry) == entry.name # VSCODE_CONFENTRY_AUTO

\* a mutant of NewEntries: auto_entry is the base entry itself, not a deep copy,
\* so the renaming and the appends happen to the entry inside the document
NewEntriesAliased(configurations, auto_entry) ==
    LET b       == FirstBaseIndex(configurations)
        aliased == [i \in 1..Len(configurations) |->
                       IF i = b THEN auto_entry ELSE configurations[i]]
    IN  Append(SelectSeq(aliased, IsNotAuto), auto_entry)

\* a mutant of NewEntries: the earlier "MbedAuto" entries are not filtered out
NewEntriesKeepOld(configurations, auto_entry) ==
    Append(configurations, auto_entry)

\* new_entries: every entry not named "MbedAuto", then auto_entry
NewEntries(configurations, auto_entry) ==
    Append(SelectSeq(configurations, IsNotAuto), auto_entry)

\* a mutant of MergedConf: the new entry is derived from the last entry of the
\* document (the previously generated one, after a first run) instead of the base
MergedConfAccumulating(vscode_conf, includes, defines) ==
    LET configurations == vscode_conf.configurations
        auto_entry == AutoEntry(configurations[Len(configurations)], includes, defines)
    IN  [vscode_conf EXCEPT !.configurations = NewEntries(configurations, auto_entry)]

\* the document update writes, from the document it loaded
MergedConf(vscode_conf, includes, defines) ==
    LET configurations == vscode_conf.configurations
        base_entry == configurations[FirstBaseIndex(configurations)]
        auto_entry == AutoEntry(base_entry, includes, defines)
    IN  [vscode_conf EXCEPT !.configurations = NewEntries(configurations, auto_entry)]

\* generate's vscode_conf; the env object is the set of its key/value pairs
EmptyObject == {}

TemplateConf(compiler_path, c_standard, cpp_standard) ==
    [env |-> EmptyObject,
     configurations |-> <<[name |-> "Mbed",
                           includePath |-> <<>>,
                           defines |-> <<>>,
                           compilerPath |-> compiler_path,
                           cStandard |-> c_standard,
                           cppStandard |-> cpp_standard,
                           intelliSenseMode |-> "gcc-arm"]>>,
     version |-> 4]

----------------------------------------------------------------------------
(* Paths and the tool config file *)

CMAKE_ROOTDIR_NAME == <<"c","m","a","k","e","_","b","u","i","l","d">>
NINJA_BUILDFILE_NAME == <<"b","u","i","l","d",".","n","i","n","j","a">>

\* pathlib's p / name
Join(p, name) == p \o <<"/">> \o name

CmakeBuildDir(mbed_program_dir, mbed_target, mbed_profile, mbed_toolchain) ==
    Join(Join(Join(Join(mbed_program_dir, CMAKE_ROOTDIR_NAME), mbed_target),
              mbed_profile), mbed_toolchain)

\* configure's conf (the keys update reads, and the command's arguments)
ToolConf(mbed_toolchain, mbed_target, mbed_profile, mbed_program_dir) ==
    LET cmake_build_dir ==
            CmakeBuildDir(mbed_program_dir, mbed_target, mbed_profile, mbed_toolchain)
    IN  [mbed_toolchain   |-> mbed_toolchain,
         mbed_target      |-> mbed_target,
         mbed_profile     |-> mbed_profile,
         mbed_program_dir |-> mbed_program_dir,
         cmake_build_dir  |-> cmake_build_dir,
         ninja_build_file |-> Join(cmake_build_dir, NINJA_BUILDFILE_NAME)]

----------------------------------------------------------------------------
(* What the commands are run on *)

\* the arguments the model runs the commands with
ProgramDir == <<"/","p">>
Target == <<"T">>
Profile == <<"d","e","v","e","l","o","p">>
Toolchains == {<<"G","C","C","_","A","R","M">>}
CStandards == {"c17"}
CppStandards == {"c++17"}
None == "None"
WhichOutput == "/usr/bin/arm-none-eabi-gcc"
CompilerPaths == {None, "/opt/gcc/bin/arm-none-eabi-gcc"}

\* entries a user writes
UserBase == [name |-> "Mbed", compilerPath |-> "/usr/bin/arm-none-eabi-gcc"]
UserBaseWithLists ==
    [name |-> "Mbed",
     includePath |-> << <<"/","u","s","r","/","i","n","c">> >>,
     defines |-> << <<"U","S","E","R">> >>,
     compilerPath |-> "/opt/gcc/bin/arm-none-eabi-gcc",
     cStandard |-> "c11"]
StaleAuto ==
    [name |-> "MbedAuto",
     includePath |-> << <<"/","o","l","d">> >>,
     defines |-> << <<"O","L","D">> >>,
     compilerPath |-> "/usr/bin/arm-none-eabi-gcc"]
UserOther == [name |-> "Linux", includePath |-> <<>>, compilerPath |-> "/usr/bin/gcc"]

UserEntries == {UserBase, UserBaseWithLists, StaleAuto, UserOther}

RECURSIVE SeqsUpTo(_, _)
SeqsUpTo(S, n) ==
    IF n = 0 THEN {<<>>}
    ELSE LET shorter == SeqsUpTo(S, n - 1)
         IN  shorter \cup {Append(q, x) : q \in shorter, x \in S}

\* the documents a user writes: an env, up to MaxEntries entries, version 4
UserDocuments ==
    {[env |-> {<<"myCompilerFlags", "-Wall">>}, configurations |-> c, version |-> 4] :
        c \in SeqsUpTo(UserEntries, MaxEntries)}

\* build.ninja files cmake writes in the model of the three commands
NinjaExample ==
    << <<"r","u","l","e"," ","c","c","\n">>,
       <<"D","E","F","I","N","E","S"," ","="," ","-","D","F","O","O"," ",
         "-","D","B","A","R","\n">>,
       <<"I","N","C","L","U","D","E","S"," ","="," ","-","I","\"","/","a","/","b","\"",
         " ","-","I","\"","/","a","/","b","\"","\n">> >>
NinjaNoMarkers == << <<"b","u","i","l","d"," ","a","l","l",":"," ","p","h","o","n","y","\n">> >>
NinjaFiles == {NinjaExample, NinjaNoMarkers}

\* what configure can find around it: all fine, or one thing wrong
Surroundings == {"fine", "no build dir", "no cmake conf", "cmake fails"}

NoCmd == [cmd |-> "none", outcome |-> "none", args |-> None]
NoExtract == [defines |-> <<>>, includes |-> <<>>, read |-> 0]
Files == [vscode |-> vscode_conf_file, tool |-> tool_conf_file]

----------------------------------------------------------------------------
(* generate *)

\* how generate ends: the else branch of "Find arm compiler path" reads
\* compiler_executable, which only the other branch assigns
GenerateOutcome(compiler_path, which_found) ==
    IF compiler_path = None
    THEN IF which_found THEN "ok" ELSE "Exception: no arm-none-eabi-gcc"
    ELSE "UnboundLocalError: compiler_executable"

Generate(c_standard, cpp_standard, compiler_path, which_found) ==
    LET outcome == GenerateOutcome(compiler_path, which_found)
        path    == IF compiler_path = None THEN WhichOutput ELSE compiler_path
    IN  /\ out_dir' = "present"
        /\ vscode_conf_file' =
              IF outcome = "ok"
              THEN File(TemplateConf(path, c_standard, cpp_standard))
              ELSE vscode_conf_file
        /\ lastCmd' = [cmd |-> "generate", outcome |-> outcome,
                       args |-> [c_standard |-> c_standard,
                                 cpp_standard |-> cpp_standard,
                                 compiler_path |-> compiler_path,
                                 which_found |-> which_found]]
        /\ before' = Files
        /\ extracted' = NoExtract
        /\ UNCHANGED <<tool_conf_file, ninja_build_file>>

----------------------------------------------------------------------------
(* configure *)

\* how configure ends: the checks in the order the code makes them
ConfigureOutcome(vscode_file, surroundings) ==
    IF vscode_file = NoFile THEN "click: vscode-conf-file does not exist"
    ELSE LET n == CountBase(Content(vscode_file).configurations)
         IN  IF n < 1 THEN "Exception: no base entry"
             ELSE IF n > 1 THEN "Exception: duplicated base entry"
             ELSE IF surroundings = "no build dir" THEN "Exception: no cmake build directory"
             ELSE IF surroundings = "no cmake conf" THEN "Exception: no cmake config file"
             ELSE IF surroundings = "cmake fails" THEN "Exception: cmake failed"
             ELSE "ok"

\* a mutant of ConfigureSaves: the tool config file is saved before cmake is run
ConfigureSavesBeforeCmake(outcome) ==
    outcome \in {"ok", "Exception: cmake failed"}

\* the tool config file is written last, after every check and after cmake
ConfigureSaves(outcome) == outcome = "ok"

Configure(mbed_toolchain, surroundings, ninja) ==
    LET outcome == ConfigureOutcome(vscode_conf_file, surroundings)
    IN  /\ ninja_build_file' =
              IF outcome = "ok" THEN File(ninja) ELSE ninja_build_file
        /\ tool_conf_file' =
              IF ConfigureSaves(outcome)
              THEN File(ToolConf(mbed_toolchain, Target, Profile, ProgramDir))
              ELSE tool_conf_file
        /\ lastCmd' = [cmd |-> "configure", outcome |-> outcome,
                       args |-> [mbed_toolchain |-> mbed_toolchain,
                                 surroundings |-> surroundings]]
        /\ before' = Files
        /\ extracted' = NoExtract
        /\ UNCHANGED <<out_dir, vscode_conf_file>>

----------------------------------------------------------------------------
(* update *)

\* how update ends: the checks in the order the code makes them; next() on a
\* filter that yields nothing raises StopIteration
UpdateOutcome(tool_file, ninja_file, vscode_file) ==
    IF tool_file = NoFile THEN "click: tool-conf-file does not exist"
    ELSE IF ninja_file = NoFile THEN "Exception: no build.ninja"
    ELSE IF vscode_file = NoFile THEN "Exception: no c_cpp_properties.json"
    ELSE IF BaseIndices(Content(vscode_file).configurations) = {} THEN "StopIteration"
    ELSE "ok"

\* the locals defines and includes, once "Parse build.ninja" has run
ExtractedBy(outcome, tool_file, ninja_file) ==
    IF outcome \in {"click: tool-conf-file does not exist", "Exception: no build.ninja"}
    THEN NoExtract
    ELSE ParseNinja(Content(ninja_file), Content(tool_file).cmake_build_dir)

Update ==
    LET outcome == UpdateOutcome(tool_conf_file, ninja_build_file, vscode_conf_file)
        info    == ExtractedBy(outcome, tool_conf_file, ninja_build_file)
    IN  /\ extracted' = info
        /\ vscode_conf_file' =
              IF outcome = "ok"
              THEN File(MergedConf(Content(vscode_conf_file),
                                   info.includes, info.defines))
              ELSE vscode_conf_file
        /\ lastCmd' = [cmd |-> "update", outcome |-> outcome, args |-> None]
        /\ before' = Files
        /\ UNCHANGED <<out_dir, tool_conf_file, ninja_build_file>>

----------------------------------------------------------------------------
(* The user, between commands *)

\* the user writes c_cpp_properties.json by hand
UserEdits(document) ==
    /\ vscode_conf_file' = File(document)
    /\ out_dir' = "present"
    /\ lastCmd' = NoCmd
    /\ before' = [vscode |-> File(document), tool |-> tool_conf_file]
    /\ extracted' = NoExtract
    /\ UNCHANGED <<tool_conf_file, ninja_build_file>>

\* the user removes c_cpp_properties.json or the build directory's build.ninja
UserRemoves(which) ==
    /\ \/ which = "vscode" /\ vscode_conf_file # NoFile
       \/ which = "ninja" /\ ninja_build_file # NoFile
    /\ vscode_conf_file' = IF which = "vscode" THEN NoFile ELSE vscode_conf_file
    /\ ninja_build_file' = IF which = "ninja" THEN NoFile ELSE ninja_build_file
    /\ lastCmd' = NoCmd
    /\ before' = [vscode |-> vscode_conf_file', tool |-> tool_conf_file]
    /\ extracted' = NoExtract
    /\ UNCHANGED <<out_dir, tool_conf_file>>

----------------------------------------------------------------------------
(* The three commands and the user *)

Init ==
    /\ out_dir = "absent"
    /\ vscode_conf_file = NoFile
    /\ tool_conf_file = NoFile
    /\ ninja_build_file = NoFile
    /\ lastCmd = NoCmd
    /\ before = [vscode |-> NoFile, tool |-> NoFile]
    /\ extracted = NoExtract

GenerateCmd ==
    \E c \in CStandards, cpp \in CppStandards, path \in CompilerPaths, found \in BOOLEAN :
        Generate(c, cpp, path, found)

ConfigureCmd ==
    \E t \in Toolchains, s \in Surroundings, ninja \in NinjaFiles : Configure(t, s, ninja)

UpdateCmd == Update

UserEditsDocument == \E d \in UserDocuments : UserEdits(d)

UserRemovesFile == \E which \in {"vscode", "ninja"} : UserRemoves(which)

Next ==
    \/ GenerateCmd
    \/ ConfigureCmd
    \/ UpdateCmd
    \/ UserEditsDocument
    \/ UserRemovesFile

Spec == Init /\ [][Next]_vars

----------------------------------------------------------------------------
(* update alone, on generated build.ninja files *)

\* the -D items of generated DEFINES lines: FOO-like symbols and V=1-DEV
DefineItems ==
    {<<"-","D","A">>, <<"-","D","B">>, <<"-","D","V","=","1","-","D","E","V">>}

\* the -I items of generated INCLUDES lines: "/a", "/b c" and "/my-IoT"
IncludeItems ==
    {<<"-","I","\"","/","a","\"">>, <<"-","I","\"","/","b"," ","c","\"">>,
     <<"-","I","\"","/","m","y","-","I","o","T","\"">>}

Paddings == {<<" ">>, <<" "," ">>}
Indents == {<<>>, <<" "," ">>}
LineEnds == {<<"\n">>, <<" ","\n">>}

RECURSIVE Joined(_, _)
Joined(items, padding) ==
    IF Len(items) = 1 THEN items[1]
    ELSE items[1] \o padding \o Joined(Tail(items), padding)

MarkerLines(marker, Items) ==
    {indent \o marker \o Joined(items, padding) \o end :
        indent \in Indents, padding \in Paddings, end \in LineEnds,
        items \in SeqsUpTo(Items, MaxTokens) \ {<<>>}}

\* lines of the files with several marker lines
LinePool ==
    {<<"D","E","F","I","N","E","S"," ","="," ","-","D","A","\n">>,
     <<" ","D","E","F","I","N","E","S"," ","="," ","-","D","B"," ","-","D","A","\n">>,
     <<"I","N","C","L","U","D","E","S"," ","="," ","-","I","\"","/","a","\"","\n">>,
     <<" ","I","N","C","L","U","D","E","S"," ","="," ","-","I","\"","/","b","\"","\n">>,
     <<"r","u","l","e"," ","c","c","\n">>}

GeneratedNinjaFiles ==
    {<<line>> : line \in MarkerLines(DEFINES_MARKER, DefineItems)}
    \cup {<<line>> : line \in MarkerLines(INCLUDES_MARKER, IncludeItems)}
    \cup SeqsUpTo(LinePool, MaxLines)

UserDocument ==
    [env |-> {<<"myCompilerFlags", "-Wall">>},
     configurations |-> <<UserBase>>, version |-> 4]

\* configure has succeeded on a document with one base entry, and cmake has
\* written one of the generated files
InitExtract ==
    /\ out_dir = "present"
    /\ vscode_conf_file = File(UserDocument)
    /\ tool_conf_file \in {File(ToolConf(t, Target, Profile, ProgramDir)) : t \in Toolchains}
    /\ ninja_build_file \in {File(ninja) : ninja \in GeneratedNinjaFiles}
    /\ lastCmd = NoCmd
    /\ before = [vscode |-> vscode_conf_file, tool |-> tool_conf_file]
    /\ extracted = NoExtract

NextExtract == UpdateCmd

SpecExtract == InitExtract /\ [][NextExtract]_vars

----------------------------------------------------------------------------
(* Properties of the commands *)

UpdateRan == lastCmd.cmd = "update"
UpdateOk == UpdateRan /\ lastCmd.outcome = "ok"
\* update got as far as looking up the base entry
UpdateReachedMerge == UpdateRan /\ lastCmd.outcome \in {"ok", "StopIteration"}
\* update got as far as parsing build.ninja
UpdateParsed ==
    UpdateRan /\ lastCmd.outcome \notin {"click: tool-conf-file does not exist",
                                         "Exception: no build.ninja"}

EntriesBefore == Content(before.vscode).configurations
EntriesAfter == Content(vscode_conf_file).configurations
GeneratedEntry == EntriesAfter[Len(EntriesAfter)]
BuildDir == Content(tool_conf_file).cmake_build_dir

Count(entries, name) == Cardinality({i \in 1..Len(entries) : entries[i].name = name})
Names(entries) == {entries[i].name : i \in 1..Len(entries)}
ListOf(entry, key) == IF key \in DOMAIN entry THEN entry[key] ELSE <<>>

\* C1: update fails when the document it merges has no entry named "Mbed", fails
\* when it has two or more, and succeeds when it has exactly one.
C1_UpdateValidatesBaseEntry ==
    UpdateReachedMerge =>
        (lastCmd.outcome = "ok" <=> CountBase(EntriesBefore) = 1)

\* C2: the entry update generates is the base entry with the name "MbedAuto",
\* the extracted includes appended to includePath and the extracted defines
\* appended to defines (each list empty when the base entry lacks it); on the
\* base entry {name: "Mbed", compilerPath: P} and DEFINES = -DFOO -DBAR,
\* INCLUDES = -I"/a/b" -I"/a/b" it has defines [FOO, BAR], includePath
\* [/a/b, <build dir>/_deps/greentea-client-src/include] and compilerPath P.
C2_GeneratedEntryFromBase ==
    (UpdateOk /\ CountBase(EntriesBefore) = 1) =>
        LET base == EntriesBefore[FirstBaseIndex(EntriesBefore)]
            gen  == GeneratedEntry
        IN  /\ DOMAIN gen = DOMAIN base \cup {"includePath", "defines"}
            /\ \A k \in DOMAIN base \ {"name", "includePath", "defines"} :
                   gen[k] = base[k]
            /\ gen.name = "MbedAuto"
            /\ gen.includePath = ListOf(base, "includePath") \o extracted.includes
            /\ gen.defines = ListOf(base, "defines") \o extracted.defines
            /\ (base = UserBase /\ ninja_build_file = File(NinjaExample)) =>
                   /\ gen.defines = << <<"F","O","O">>, <<"B","A","R">> >>
                   /\ gen.includePath =
                          << <<"/","a","/","b">>, BuildDir \o GREENTEA_INCLUDE >>
                   /\ gen.compilerPath = "/usr/bin/arm-none-eabi-gcc"

C2_Witness ==
    /\ UpdateOk
    /\ EntriesBefore = <<UserBase>>
    /\ ninja_build_file = File(NinjaExample)
    /\ Len(EntriesAfter) = 2

\* C3: a successful update keeps every entry not named "MbedAuto" as it was and
\* in the same order, removes the earlier "MbedAuto" entries, puts exactly one
\* "MbedAuto" entry last, and keeps env and version.
C3_UpdateKeepsTheRest ==
    UpdateOk =>
        /\ SelectSeq(EntriesAfter, IsNotAuto) = SelectSeq(EntriesBefore, IsNotAuto)
        /\ Len(EntriesAfter) = Len(SelectSeq(EntriesBefore, IsNotAuto)) + 1
        /\ GeneratedEntry.name = "MbedAuto"
        /\ Count(EntriesAfter, "MbedAuto") = 1
        /\ Content(vscode_conf_file).env = Content(before.vscode).env
        /\ Content(vscode_conf_file).version = Content(before.vscode).version

C3_Witness ==
    /\ UpdateOk
    /\ EntriesBefore = <<StaleAuto, UserOther, UserBaseWithLists>>
    /\ EntriesAfter[1] = UserOther
    /\ EntriesAfter[2] = UserBaseWithLists

\* C4: an update that follows a successful update, on the document that one
\* wrote and the same build.ninja, succeeds and writes the same document again.
C4_UpdateIdempotent ==
    [][(UpdateOk /\ lastCmd'.cmd = "update") =>
          (lastCmd'.outcome = "ok" /\ vscode_conf_file' = vscode_conf_file)]_vars

C4_Witness ==
    /\ UpdateOk
    /\ before.vscode = vscode_conf_file
    /\ extracted.defines # <<>>
    /\ Len(GeneratedEntry.includePath) = 3

\* C7: a command that fails leaves c_cpp_properties.json and the tool config
\* file as they were; configure never changes c_cpp_properties.json and update
\* never changes the tool config file.
C7_FailureWritesNothing ==
    /\ (lastCmd.cmd \in {"generate", "configure", "update"} /\ lastCmd.outcome # "ok") =>
           (vscode_conf_file = before.vscode /\ tool_conf_file = before.tool)
    /\ lastCmd.cmd = "configure" => vscode_conf_file = before.vscode
    /\ lastCmd.cmd = "update" => tool_conf_file = before.tool

C7_Witness ==
    /\ lastCmd.cmd = "configure"
    /\ lastCmd.outcome = "Exception: cmake failed"
    /\ before.tool = NoFile
    /\ tool_conf_file = NoFile
    /\ vscode_conf_file # NoFile

\* C8: generate, given a compiler path or finding the default one, succeeds and
\* writes a document with empty env, version 4 and the single entry "Mbed" with
\* empty includePath and defines and the given compilerPath, cStandard and
\* cppStandard; configure's check of the base entry accepts this document.
C8_GenerateWritesTemplate ==
    (/\ lastCmd.cmd = "generate"
     /\ (lastCmd.args.compiler_path # None \/ lastCmd.args.which_found)) =>
        /\ lastCmd.outcome = "ok"
        /\ vscode_conf_file # NoFile
        /\ Content(vscode_conf_file).env = {}
        /\ Content(vscode_conf_file).version = 4
        /\ Len(EntriesAfter) = 1
        /\ CountBase(EntriesAfter) = 1
        /\ EntriesAfter[1].includePath = <<>>
        /\ EntriesAfter[1].defines = <<>>
        /\ EntriesAfter[1].compilerPath =
               (IF lastCmd.args.compiler_path = None THEN WhichOutput
                ELSE lastCmd.args.compiler_path)
        /\ EntriesAfter[1].cStandard = lastCmd.args.c_standard
        /\ EntriesAfter[1].cppStandard = lastCmd.args.cpp_standard

\* C9 as stated: in every document update writes, no two entries share a name.
C9_NamesUnique ==
    UpdateOk => \A n \in Names(EntriesAfter) : Count(EntriesAfter, n) = 1

\* C9, amended: in every document update writes, the name "MbedAuto" occurs
\* exactly once and every other name occurs as often as in the document update
\* loaded.
C9_OnlyGeneratedNameMadeUnique ==
    UpdateOk =>
        /\ Count(EntriesAfter, "MbedAuto") = 1
        /\ \A n \in (Names(EntriesAfter) \cup Names(EntriesBefore)) \ {"MbedAuto"} :
               Count(EntriesAfter, n) = Count(EntriesBefore, n)

C9_Witness ==
    /\ UpdateOk
    /\ Count(EntriesBefore, "MbedAuto") = 2
    /\ \A n \in Names(EntriesAfter) : Count(EntriesAfter, n) = 1

----------------------------------------------------------------------------
(* Properties of the extraction *)

NinjaLines == Content(ninja_build_file)
Trimmed(i) == strip(NinjaLines[i])
DefinesLines == {i \in 1..Len(NinjaLines) : startswith(Trimmed(i), DEFINES_MARKER)}
IncludesLines == {i \in 1..Len(NinjaLines) : startswith(Trimmed(i), INCLUDES_MARKER)}
First(S) == CHOOSE i \in S : \A j \in S : i <= j
Later(a, b) == IF a > b THEN a ELSE b

\* the value of a marker line: what follows the marker
ValueOf(line, marker) == SubSeq(line, Len(marker) + 1, Len(line))

RECURSIVE Deduplicated(_, _)
Deduplicated(list, seen) ==
    IF list = <<>> THEN seen
    ELSE Deduplicated(Tail(list),
                      IF Contains(seen, Head(list)) THEN seen
                      ELSE Append(seen, Head(list)))

\* the words of a command line: the maximal runs without whitespace
RECURSIVE Words(_, _, _)
Words(s, word, acc) ==
    IF s = <<>> THEN (IF word = <<>> THEN acc ELSE Append(acc, word))
    ELSE IF Head(s) \in Whitespace
         THEN Words(Tail(s), <<>>, IF word = <<>> THEN acc ELSE Append(acc, word))
         ELSE Words(Tail(s), Append(word, Head(s)), acc)

\* the symbols a DEFINES value passes to the compiler: of every word that
\* starts with the marker -D, what follows the marker
RECURSIVE SymbolsOf(_)
SymbolsOf(words) ==
    IF words = <<>> THEN <<>>
    ELSE (IF startswith(Head(words), DASH_D)
          THEN <<SubSeq(Head(words), 3, Len(Head(words)))>>
          ELSE <<>>) \o SymbolsOf(Tail(words))

DefinedSymbols(line) ==
    Deduplicated(SymbolsOf(Words(ValueOf(line, DEFINES_MARKER), <<>>, <<>>)), <<>>)

\* the paths an INCLUDES value passes to the compiler: after every -I" that
\* starts a word, the characters up to the closing quote
RECURSIVE QuotedAfterMarkers(_, _)
QuotedAfterMarkers(s, i) ==
    IF i + 2 > Len(s) THEN <<>>
    ELSE IF /\ SubSeq(s, i, i + 2) = DASH_I \o <<"\"">>
            /\ (i = 1 \/ s[i - 1] \in Whitespace)
         THEN LET closing == {j \in (i + 3)..Len(s) : s[j] = "\""}
              IN  IF closing = {} THEN <<>>
                  ELSE <<Slice(s, i + 3, First(closing) - 1)>>
                       \o QuotedAfterMarkers(s, First(closing) + 1)
         ELSE QuotedAfterMarkers(s, i + 1)

IncludedPaths(line) ==
    Deduplicated(QuotedAfterMarkers(ValueOf(line, INCLUDES_MARKER), 1), <<>>)

\* C5: when build.ninja has a DEFINES line, the extracted defines are the
\* symbols following the -D markers of that line, in order of first appearance
\* and without repetition, whatever the padding; none is empty and none is a
\* piece of a symbol that contains the characters -D.
C5_DefinesAreTheSymbols ==
    (UpdateParsed /\ DefinesLines # {}) =>
        /\ extracted.defines = DefinedSymbols(Trimmed(First(DefinesLines)))
        /\ \A k \in 1..Len(extracted.defines) : extracted.defines[k] # <<>>

\* C6: the extracted includes are the quoted paths following the -I markers of
\* the INCLUDES line, quotes removed, in order of first appearance and without
\* repetition, then <build dir>/_deps/greentea-client-src/include, which is
\* appended last in every case: also when the line has it already and when
\* there is no INCLUDES line.
C6_IncludesAreThePaths ==
    UpdateParsed =>
        extracted.includes =
            Append(IF IncludesLines = {} THEN <<>>
                   ELSE IncludedPaths(Trimmed(First(IncludesLines))),
                   BuildDir \o GREENTEA_INCLUDE)

\* C10: the defines come from the first DEFINES line alone and the includes
\* from the first INCLUDES line alone, whatever the number and order of such
\* lines; no line after the later of the two is read.
C10_FirstMatchPerMarker ==
    UpdateParsed =>
        /\ extracted.defines =
               (IF DefinesLines = {} THEN <<>>
                ELSE ParseDefines(<<>>, Trimmed(First(DefinesLines))))
        /\ extracted.includes =
               Append(IF IncludesLines = {} THEN <<>>
                      ELSE ParseIncludes(<<>>, Trimmed(First(IncludesLines))),
                      BuildDir \o GREENTEA_INCLUDE)
        /\ extracted.read =
               (IF DefinesLines # {} /\ IncludesLines # {}
                THEN Later(First(DefinesLines), First(IncludesLines))
                ELSE Len(NinjaLines))

C10_Witness ==
    /\ UpdateParsed
    /\ Len(NinjaLines) = 3
    /\ DefinesLines = {1, 2}
    /\ Trimmed(1) # Trimmed(2)
    /\ IncludesLines = {3}
    /\ extracted.read = 3
    /\ Len(extracted.defines) = 1

====
